---- MODULE Spec2Model ----
(***************************************************************************)
(* Particle fountain of cave_tests: Particle (src/src/Particle.cpp) and    *)
(* Application (src/unnamed/part_001), in the GLUT build and in the        *)
(* CAVElib build (several instances, several display threads).             *)
(* src/unnamed/part_000 is the revision of Application that hands the pool *)
(* to Scene; Scene is not among the sources, and the pool is modelled as   *)
(* part_001 keeps it.                                                      *)
(*                                                                         *)
(* Units.  Time is counted in milliseconds, the resolution of              *)
(* glutGet(GLUT_ELAPSED_TIME); a float number of seconds s is the integer  *)
(* s * TicksPerSecond.  Lengths are counted in 1/Milli of a scene unit,    *)
(* angles in 1/Quadrant of a quarter turn (pi/2 rad), joystick values in   *)
(* tenths.  Arithmetic is exact: float rounding is not modelled.           *)
(*                                                                         *)
(* particles_ is kept run-length encoded: the particles emplaced one after *)
(* the other by one update() call have the same life and consecutive       *)
(* generator draws, and form one run [life, count, seed, first].           *)
(* The mt19937 generator is kept as its seed and the number of draws made. *)
(***************************************************************************)
EXTENDS Integers, Sequences, FiniteSets, TLC

\* ---------------------------------------------------------------- bounds
MaxFrames == 3
MaxKeys == 2
MaxCaveFrames == 3
NumFollowers == 1
NumThreads == 2

\* ------------------------------------------------------ program constants
particles_per_second == 400
default_life == 10
TicksPerSecond == 1000
Milli == 1000
Quadrant == 1000
DrawsPerParticle == 6
KeyTurnDivisor == 20
JoystickThreshold == 1
JoystickUnit == 10
DefaultSeed == 5489
rotation_per_second == Quadrant

default_position == [x |-> 0, y |-> 0, z |-> (0 - 5) * Milli]

\* inputs of the environment
Deltas == {0, 3, 100, 5000, 6000, 9999}
Keys == {" ", "w", "s", "a", "d"}
Seeds == {7, 11}
GlutSeeds == {7}
CaveDeltas == {100, 6007}
StartTimes == {0, 250}
\* the two valuators: at the threshold, and beyond it
Joystick == {<<1, 1>>, <<0 - 10, 10>>}

\* ------------------------------------------------------------ arithmetic
Abs(a) == IF a < 0 THEN 0 - a ELSE a

\* std::sin / std::cos on angles in 1/Quadrant of a quarter turn, result in
\* 1/Milli: the piecewise linear interpolation through the exact values at
\* the multiples of a quarter turn.
SinMilli(a) ==
    LET r == a % (4 * Quadrant)
    IN  IF r <= Quadrant THEN (r * Milli) \div Quadrant
        ELSE IF r <= 3 * Quadrant THEN ((2 * Quadrant - r) * Milli) \div Quadrant
        ELSE ((r - 4 * Quadrant) * Milli) \div Quadrant

CosMilli(a) == SinMilli(a + Quadrant)

\* ------------------------------------------------------------- Particle
\* Particle::Particle: life(default_life).  A run of count particles made
\* by consecutive create_particle calls: seed and first identify the
\* generator draws that made their positions and directions.
Particle(seed, first, count) ==
    [life |-> default_life * TicksPerSecond, count |-> count,
     seed |-> seed, first |-> first]

\* Particle::update without its last statement
ParticleUpdate_nolife(p, time_delta) == p

\* Particle::update: life -= time_delta.
ParticleUpdate(p, time_delta) ==
    [p EXCEPT !.life = @ - time_delta]

\* Particle::dead
dead(p) == p.life <= 0

\* create_particle, called n times in a row: three draws for the position
\* and three for the direction of each particle.
create_particle(generator, n) ==
    [particle |-> Particle(generator.seed, generator.draws, n),
     generator |-> [generator EXCEPT !.draws = @ + n * DrawsPerParticle]]

\* ---------------------------------------------------------- particles_
RECURSIVE PoolSize(_)
PoolSize(pool) ==
    IF pool = << >> THEN 0 ELSE Head(pool).count + PoolSize(Tail(pool))

\* the spawn loop started at i = 1
SpawnLoop_short(n, pool, generator) ==
    IF 1 < n
    THEN LET c == create_particle(generator, n - 1)
         IN  [pool |-> Append(pool, c.particle), generator |-> c.generator]
    ELSE [pool |-> pool, generator |-> generator]

\* for (i = 0; i < particles_to_create; ++i)
\*     particles_.emplace_back(create_particle(...))
\* The n particles of the loop are one run at the end of the vector.
SpawnLoop(n, pool, generator) ==
    IF 0 < n
    THEN LET c == create_particle(generator, n)
         IN  [pool |-> Append(pool, c.particle), generator |-> c.generator]
    ELSE [pool |-> pool, generator |-> generator]

\* the update loop stopping one particle run early
UpdateAll_skipLast(pool, time_delta) ==
    [k \in 1..Len(pool) |->
        IF k < Len(pool) THEN ParticleUpdate(pool[k], time_delta) ELSE pool[k]]

\* for (auto& p: particles_) p.update(time_delta)
UpdateAll(pool, time_delta) ==
    [k \in 1..Len(pool) |-> ParticleUpdate(pool[k], time_delta)]

\* the removal with the test life < 0
EraseDead_strict(pool) == SelectSeq(pool, LAMBDA p: p.life >= 0)

\* particles_.erase(std::remove_if(..., dead), end)
EraseDead(pool) == SelectSeq(pool, LAMBDA p: ~dead(p))

\* ---------------------------------------------------------- Application
VARIABLES
    clock,        \* the host's clock (glutGet(GLUT_ELAPSED_TIME), CAVEGetTime)
    state_,       \* state_ of every instance
    last_time_,   \* last_time_ of every instance
    particles_,   \* particles_ of every instance
    generator_,   \* generator_ of every instance
    buttons_,     \* buttons_[0] of the distribution master
    channel,      \* comm_channel: what each follower has still to read
    inited,       \* the instances whose init_cave has run
    pc,           \* where each display thread of an instance is
    published,    \* what the master wrote and had after each frame (history)
    probe,        \* pool sizes inside the latest update() (history)
    frames,       \* number of frames every instance has run (history)
    keys          \* number of keys pressed so far (history)

vars == <<clock, state_, last_time_, particles_, generator_, buttons_,
          channel, inited, pc, published, probe, frames, keys>>

\* CAVEDistribMaster() is true on instance 0; CAVEMasterDisplay() is true
\* in thread 0 of every instance.
Instances == 0..NumFollowers
Followers == 1..NumFollowers
Threads == 0..(NumThreads - 1)
DistribMaster == 0
MasterDisplay == 0

\* The members of one Application as a record.
App(i) ==
    [state_ |-> state_[i], last_time_ |-> last_time_[i],
     particles_ |-> particles_[i], generator_ |-> generator_[i]]

\* Application::reset
reset(a, value) ==
    IF value
    THEN [a EXCEPT !.state_.reset_scene = value,
                   !.state_.position = default_position,
                   !.state_.rotation_y = 0]
    ELSE [a EXCEPT !.state_.reset_scene = value]

\* the conversion rounding to nearest instead of truncating
ParticlesToCreate_round(time_delta) ==
    (particles_per_second * time_delta + TicksPerSecond \div 2)
        \div TicksPerSecond

\* static_cast<size_t>(particles_per_second * time_delta)
ParticlesToCreate(time_delta) ==
    (particles_per_second * time_delta) \div TicksPerSecond

\* update_time without last_time_ = current_time
update_time_nostore(a, current_time) ==
    [a EXCEPT !.state_.time_delta = current_time - a.last_time_,
              !.state_.particles_to_create =
                  ParticlesToCreate(current_time - a.last_time_)]

\* Application::update_time
update_time(a, current_time) ==
    [a EXCEPT !.state_.time_delta = current_time - a.last_time_,
              !.last_time_ = current_time,
              !.state_.particles_to_create =
                  ParticlesToCreate(current_time - a.last_time_)]

\* update() without the clear
UpdateCleared_never(a) == a.particles_

\* Application::update, up to the clear
UpdateCleared(a) ==
    IF a.state_.reset_scene THEN << >> ELSE a.particles_

\* Application::update, up to the end of the spawn loop
UpdateSpawned(a) ==
    SpawnLoop(a.state_.particles_to_create, UpdateCleared(a), a.generator_)

\* update() without the final reset(false)
update_keepflag(a) ==
    LET spawned == UpdateSpawned(a)
        moved == UpdateAll(spawned.pool, a.state_.time_delta)
    IN  [a EXCEPT !.particles_ = EraseDead(moved),
                  !.generator_ = spawned.generator]

\* Application::update
update(a) ==
    LET spawned == UpdateSpawned(a)
        moved == UpdateAll(spawned.pool, a.state_.time_delta)
    IN  reset([a EXCEPT !.particles_ = EraseDead(moved),
                        !.generator_ = spawned.generator], FALSE)

\* what update() does to the pool size on the way (history)
Probe(a) ==
    [prior |-> PoolSize(a.particles_),
     cleared |-> PoolSize(UpdateCleared(a)),
     n |-> a.state_.particles_to_create,
     spawned |-> PoolSize(UpdateSpawned(a).pool)]

Store(i, a) ==
    /\ state_' = [state_ EXCEPT ![i] = a.state_]
    /\ last_time_' = [last_time_ EXCEPT ![i] = a.last_time_]
    /\ particles_' = [particles_ EXCEPT ![i] = a.particles_]
    /\ generator_' = [generator_ EXCEPT ![i] = a.generator_]

\* Application::Application: last_time_(0.0), an empty pool, a default
\* constructed generator.  The constructor leaves state_ as it is: the
\* reset flag is either value.
Constructed ==
    /\ \E r \in BOOLEAN :
         state_ = [i \in Instances |->
                     [position |-> default_position, rotation_y |-> 0,
                      time_delta |-> 0, reset_scene |-> r,
                      particles_to_create |-> 0]]
    /\ last_time_ = [i \in Instances |-> 0]
    /\ particles_ = [i \in Instances |-> << >>]
    /\ buttons_ = [pressed |-> FALSE, was_pressed |-> FALSE]
    /\ channel = [i \in Followers |-> << >>]
    /\ pc = [t \in Threads |-> "frame"]
    /\ published = << >>
    /\ probe = [prior |-> 0, cleared |-> 0, n |-> 0, spawned |-> 0]
    /\ frames = [i \in Instances |-> 0]
    /\ keys = 0

\* ----------------------------------------------------------- GLUT build
\* Application::run: generator_.seed(rd()) before the main loop.
Init ==
    /\ Constructed
    /\ clock \in StartTimes
    /\ inited = [i \in Instances |-> FALSE]
    /\ \E seed \in GlutSeeds :
         generator_ = [i \in Instances |-> [seed |-> seed, draws |-> 0]]

\* Application::render_glut: the clock has advanced by d since the last
\* frame; update_time, update, render (render changes nothing).
render_glut(d) ==
    /\ frames[0] < MaxFrames
    /\ clock' = clock + d
    /\ LET timed == update_time(App(0), clock')
       IN  /\ Store(0, update(timed))
           /\ probe' = Probe(timed)
    /\ frames' = [frames EXCEPT ![0] = @ + 1]
    /\ UNCHANGED <<buttons_, channel, inited, pc, published, keys>>

\* Application::keyboard_glut (Escape leaves the program and is left out)
keyboard_glut(key) ==
    /\ keys < MaxKeys
    /\ keys' = keys + 1
    /\ LET a == App(0)
           sin == SinMilli(a.state_.rotation_y)
           cos == CosMilli(a.state_.rotation_y)
       IN  CASE key = " " -> Store(0, reset(a, TRUE))
             [] key = "w" ->
                  Store(0, [a EXCEPT !.state_.position.x = @ + sin,
                                     !.state_.position.z = @ + cos])
             [] key = "s" ->
                  Store(0, [a EXCEPT !.state_.position.x = @ - sin,
                                     !.state_.position.z = @ - cos])
             [] key = "a" ->
                  Store(0, [a EXCEPT !.state_.rotation_y =
                                @ + rotation_per_second \div KeyTurnDivisor])
             [] key = "d" ->
                  Store(0, [a EXCEPT !.state_.rotation_y =
                                @ - rotation_per_second \div KeyTurnDivisor])
    /\ UNCHANGED <<clock, buttons_, channel, inited, pc, published, probe,
                   frames>>

Next ==
    \/ \E d \in Deltas : render_glut(d)
    \/ \E key \in Keys : keyboard_glut(key)

Spec == Init /\ [][Next]_vars

\* -------------------------------------------------------- CAVElib build
\* Button::update: was_pressed is the rising edge of the button.
ButtonUpdate(b, value) ==
    [pressed |-> value, was_pressed |-> value /\ ~b.pressed]

\* CAVEDistribWrite(comm_channel, ...): every follower gets the message.
DistribWrite(ch, msg) == [i \in Followers |-> Append(ch[i], msg)]

\* update_cave on the distribution master, up to CAVEDistribWrite:
\* reset(buttons_[0].was_pressed), update_time, joystick.
MasterCompute(a, was_pressed, current_time, joystick_x, joystick_y) ==
    LET timed == update_time(reset(a, was_pressed), current_time)
        dt == timed.state_.time_delta
        turned ==
            IF Abs(joystick_x) > JoystickThreshold
            THEN [timed EXCEPT !.state_.rotation_y =
                     @ + (joystick_x * rotation_per_second * dt)
                             \div (JoystickUnit * TicksPerSecond)]
            ELSE timed
        sin == SinMilli(turned.state_.rotation_y)
        cos == CosMilli(turned.state_.rotation_y)
    IN  IF Abs(joystick_y) > JoystickThreshold
        THEN [turned EXCEPT
                !.state_.position.x =
                    @ + (joystick_y * dt * sin) \div (JoystickUnit * TicksPerSecond),
                !.state_.position.z =
                    @ + (joystick_y * dt * cos) \div (JoystickUnit * TicksPerSecond)]
        ELSE turned

\* a follower that keeps its own time_delta
FollowerReceive_partial(a, msg) ==
    [a EXCEPT !.state_ = [msg EXCEPT !.time_delta = a.state_.time_delta]]

\* update_cave on a follower, up to the end of CAVEDistribRead
FollowerReceive(a, msg) == [a EXCEPT !.state_ = msg]

\* init_cave in the master display thread of instance i
init_cave(i) ==
    /\ ~inited[i]
    /\ inited' = [inited EXCEPT ![i] = TRUE]
    /\ IF i = DistribMaster
       THEN \E seed \in Seeds :
              /\ channel' = DistribWrite(channel, [seed |-> seed])
              /\ generator_' = [generator_ EXCEPT
                                  ![i] = [seed |-> seed, draws |-> 0]]
       ELSE /\ channel[i] # << >>
            /\ channel' = [channel EXCEPT ![i] = Tail(@)]
            /\ generator_' = [generator_ EXCEPT
                                ![i] = [seed |-> Head(channel[i]).seed,
                                        draws |-> 0]]
    /\ UNCHANGED <<clock, state_, last_time_, particles_, buttons_, pc,
                   published, probe, frames, keys>>

\* update_cave in the master display thread of the distribution master
update_cave_master(d, button, joystick_x, joystick_y) ==
    /\ inited[DistribMaster]
    /\ frames[DistribMaster] < MaxCaveFrames
    /\ clock' = clock + d
    /\ buttons_' = ButtonUpdate(buttons_, button)
    /\ LET computed == MasterCompute(App(DistribMaster), buttons_'.was_pressed,
                                     clock', joystick_x, joystick_y)
           done == update(computed)
       IN  /\ channel' = DistribWrite(channel, computed.state_)
           /\ Store(DistribMaster, done)
           /\ probe' = Probe(computed)
           /\ published' = Append(published,
                                  [msg |-> computed.state_,
                                   state_ |-> done.state_,
                                   particles_ |-> done.particles_])
    /\ frames' = [frames EXCEPT ![DistribMaster] = @ + 1]

\* update_cave in the master display thread of a follower
update_cave_follower(i) ==
    /\ inited[i]
    /\ channel[i] # << >>
    /\ channel' = [channel EXCEPT ![i] = Tail(@)]
    /\ LET received == FollowerReceive(App(i), Head(channel[i]))
       IN  /\ Store(i, update(received))
           /\ probe' = Probe(received)
    /\ frames' = [frames EXCEPT ![i] = @ + 1]
    /\ UNCHANGED <<clock, buttons_, inited, pc, published, keys>>

InitCave ==
    /\ Constructed
    /\ clock = 0
    /\ inited = [i \in Instances |-> FALSE]
    /\ generator_ = [i \in Instances |-> [seed |-> DefaultSeed, draws |-> 0]]

NextCave ==
    \/ \E i \in Instances : init_cave(i)
    \/ \E d \in CaveDeltas, button \in BOOLEAN, j \in Joystick :
         /\ update_cave_master(d, button, j[1], j[2])
         /\ UNCHANGED <<inited, pc, keys>>
    \/ \E i \in Followers : update_cave_follower(i)

SpecCave == InitCave /\ [][NextCave]_vars

\* ------------------------------ display threads of one CAVElib instance
\* The host calls the frame function (update_cave) and then the display
\* function (render) in every display thread, once per frame.

\* update_cave with CAVEDisplayBarrier inside the CAVEMasterDisplay block
frame_enter_nobarrier(t) ==
    /\ pc[t] = "frame"
    /\ IF t = MasterDisplay
       THEN /\ frames[DistribMaster] < MaxCaveFrames
            /\ pc' = [pc EXCEPT ![t] = "update"]
       ELSE pc' = [pc EXCEPT ![t] = "display"]
    /\ UNCHANGED <<clock, state_, last_time_, particles_, generator_,
                   buttons_, channel, inited, published, probe, frames, keys>>

\* a display thread enters update_cave
frame_enter(t) ==
    /\ pc[t] = "frame"
    /\ IF t = MasterDisplay
       THEN /\ frames[DistribMaster] < MaxCaveFrames
            /\ pc' = [pc EXCEPT ![t] = "update"]
       ELSE pc' = [pc EXCEPT ![t] = "barrier"]
    /\ UNCHANGED <<clock, state_, last_time_, particles_, generator_,
                   buttons_, channel, inited, published, probe, frames, keys>>

\* the master display thread runs the body of update_cave and arrives at
\* CAVEDisplayBarrier
frame_update(t, d, button, joystick_x, joystick_y) ==
    /\ pc[t] = "update"
    /\ update_cave_master(d, button, joystick_x, joystick_y)
    /\ pc' = [pc EXCEPT ![t] = "barrier"]
    /\ UNCHANGED <<inited, keys>>

\* CAVEDisplayBarrier: every display thread has arrived
DisplayBarrier ==
    /\ \A t \in Threads : pc[t] = "barrier"
    /\ pc' = [t \in Threads |-> "display"]
    /\ UNCHANGED <<clock, state_, last_time_, particles_, generator_,
                   buttons_, channel, inited, published, probe, frames, keys>>

\* a display thread enters render()
render_enter(t) ==
    /\ pc[t] = "display"
    /\ pc' = [pc EXCEPT ![t] = "render"]
    /\ UNCHANGED <<clock, state_, last_time_, particles_, generator_,
                   buttons_, channel, inited, published, probe, frames, keys>>

\* a display thread leaves render()
render_exit(t) ==
    /\ pc[t] = "render"
    /\ pc' = [pc EXCEPT ![t] = "swap"]
    /\ UNCHANGED <<clock, state_, last_time_, particles_, generator_,
                   buttons_, channel, inited, published, probe, frames, keys>>

\* the host swaps the buffers of all display threads together and starts
\* the next frame
SwapBuffers ==
    /\ \A t \in Threads : pc[t] = "swap"
    /\ pc' = [t \in Threads |-> "frame"]
    /\ UNCHANGED <<clock, state_, last_time_, particles_, generator_,
                   buttons_, channel, inited, published, probe, frames, keys>>

InitThreads ==
    /\ Constructed
    /\ clock = 0
    /\ inited = [i \in Instances |-> i = DistribMaster]
    /\ \E seed \in Seeds :
         generator_ = [i \in Instances |-> [seed |-> seed, draws |-> 0]]

NextThreads ==
    \/ \E t \in Threads : frame_enter(t)
    \/ \E t \in Threads, d \in CaveDeltas, button \in BOOLEAN, j \in Joystick :
         frame_update(t, d, button, j[1], j[2])
    \/ DisplayBarrier
    \/ \E t \in Threads : render_enter(t)
    \/ \E t \in Threads : render_exit(t)
    \/ SwapBuffers

SpecThreads == InitThreads /\ [][NextThreads]_vars

\* ------------------------------------------------------------ properties
Life == default_life * TicksPerSecond

\* a step in which instance i has run update()
Frame(i) == frames'[i] = frames[i] + 1

Runs(pool) == {pool[k] : k \in 1..Len(pool)}

\* C1: after every completed frame update no instance holds a particle
\* whose life is <= 0.
C1_NoDeadParticle ==
    \A i \in Instances : \A p \in Runs(particles_[i]) : p.life > 0

\* a frame has just removed particles that died in it, and kept others
C1_Witness ==
    /\ frames[0] >= 2
    /\ particles_[0] # << >>
    /\ ~state_[0].reset_scene
    /\ PoolSize(particles_[0]) < probe.spawned

\* C2 as stated: a frame update that starts with the reset flag set and a
\* non-empty pool ends with an empty pool, whatever the time_delta and
\* particles_to_create of that frame.
C2_Original ==
    [][(Frame(0) /\ state_[0].reset_scene /\ particles_[0] # << >>)
          => PoolSize(particles_'[0]) = 0]_vars

\* C2 amended: a frame update that starts with the reset flag set and a
\* non-empty pool ends with none of the earlier particles: the pool holds
\* only particles spawned in that frame, all particles_to_create of them
\* when time_delta is below the default life.
C2_ResetLeavesOnlyNewParticles ==
    [][(Frame(0) /\ state_[0].reset_scene /\ particles_[0] # << >>)
          => /\ PoolSize(particles_'[0]) <= state_'[0].particles_to_create
             /\ state_'[0].time_delta < Life =>
                  PoolSize(particles_'[0]) = state_'[0].particles_to_create
             /\ \A p \in Runs(particles_'[0]) :
                  /\ p.first >= generator_[0].draws
                  /\ p.life = Life - state_'[0].time_delta]_vars

\* a reset has just cleared a non-empty pool and the frame has spawned
C2_Witness ==
    /\ probe.prior > 0
    /\ probe.cleared = 0
    /\ probe.n > 0
    /\ PoolSize(particles_[0]) = probe.n

\* C4: the pool never holds more than particles_per_second * default_life
\* particles after a frame update.
C4_PoolBound ==
    \A i \in Instances :
        PoolSize(particles_[i]) <= particles_per_second * default_life

\* a pool one particle below the bound
C4_Witness == PoolSize(particles_[0]) = particles_per_second * default_life - 1

\* C5: a particle is made with life 10; a frame update with time_delta dt
\* keeps a particle whose life is above dt, with its life decreased by
\* exactly dt, and removes a particle whose life is at most dt.
C5_LifeDecreasesByDelta ==
    [][Frame(0) =>
         LET dt == state_'[0].time_delta
         IN  /\ \A p \in Runs(particles_'[0]) :
                  p.first >= generator_[0].draws => p.life = Life - dt
             /\ ~state_[0].reset_scene =>
                  \A p \in Runs(particles_[0]) :
                      IF p.life > dt
                      THEN [p EXCEPT !.life = p.life - dt]
                              \in Runs(particles_'[0])
                      ELSE \A q \in Runs(particles_'[0]) : q.first # p.first]_vars

\* the scenario: the particles made in a first frame of 5 s had life 5,
\* and a second frame of 6 s has removed them
C5_Witness ==
    /\ frames[0] = 2
    /\ last_time_[0] = 11000
    /\ state_[0].time_delta = 6000
    /\ probe.cleared = 2000
    /\ \A p \in Runs(particles_[0]) : p.life = 4000
    /\ PoolSize(particles_[0]) = 2400

\* C7: inside update(), the pool after the spawn loop is larger than the
\* pool before it by exactly particles_to_create.
C7_SpawnAddsExactlyN == probe.spawned = probe.cleared + probe.n

\* a spawn loop has added particles to a pool that was not empty
C7_Witness == probe.cleared > 0 /\ probe.n > 0

\* C8: in every frame time_delta is the clock sample minus the sample of
\* the frame before, taken as 0 in the first frame, and last_time_ ends as
\* the sample just read.
C8_TimeDelta ==
    [][Frame(0) =>
         /\ state_'[0].time_delta =
               clock' - (IF frames[0] = 0 THEN 0 ELSE clock)
         /\ last_time_'[0] = clock']_vars

\* a first frame has run: its time_delta is the whole clock value
C8_Witness ==
    /\ frames[0] = 1
    /\ state_[0].time_delta = clock
    /\ clock > 100

C3_Original ==
    \A i \in Followers :
        frames[i] >= 1 =>
            /\ state_[i] = published[frames[i]].msg
            /\ particles_[i] = published[frames[i]].particles_

\* C3 amended: after its k-th frame a follower has the NavigationState
\* the master published for frame k with the reset flag false, which is
\* the state the master had after frame k, and the pool the master had
\* after frame k.
C3_FollowerEqualsMaster ==
    \A i \in Followers :
        frames[i] >= 1 =>
            /\ state_[i] = [published[frames[i]].msg EXCEPT !.reset_scene = FALSE]
            /\ state_[i] = published[frames[i]].state_
            /\ particles_[i] = published[frames[i]].particles_

\* a follower has run a frame published with the reset flag set, after an
\* earlier frame, and holds particles while the master is a frame ahead
C3_Witness ==
    \E i \in Followers :
        /\ frames[i] >= 2
        /\ frames[i] < frames[DistribMaster]
        /\ published[frames[i]].msg.reset_scene
        /\ particles_[i] # << >>

\* the display threads that are reading or writing particles_ and state_
Accessing == {t \in Threads : pc[t] \in {"update", "render"}}

\* C9 as stated: the pool and the state are never accessed by more than
\* one display thread at a time.
C9_Original == Cardinality(Accessing) <= 1

\* C9 amended: only the master display thread runs update(), and while it
\* does no other display thread is in update() or render(); more than one
\* thread accesses the pool and the state at a time only in render(),
\* which reads them.
C9_NoAccessDuringUpdate ==
    \A t \in Threads :
        pc[t] = "update" =>
            /\ t = MasterDisplay
            /\ Accessing = {t}

\* the master display thread is in update() of a later frame, after the
\* display threads have rendered
C9_Witness == pc[MasterDisplay] = "update" /\ frames[DistribMaster] >= 1

====
